---- MODULE Spec2Model ----
(***************************************************************************)
(* Model of the VS Code extension "Code Copier for LLMs"                   *)
(* (src/src/extension.ts): the copyProject command handler, the upward     *)
(* manifest search detectProjectFiles, and the extraction of the summary   *)
(* values from the binary's standard output.                               *)
(*                                                                         *)
(* A path is the sequence of its segments: <<>> is the filesystem root,    *)
(* <<"a", "Cargo.toml">> is /a/Cargo.toml.  path.join appends a segment,   *)
(* path.dirname drops the last one and maps the root to itself.            *)
(***************************************************************************)
EXTENDS Integers, Sequences, FiniteSets, TLC

VARIABLES
    files,          \* the manifest files that exist on disk (a set of paths)
    env,            \* the editor window: tabs, active editor, workspace folders
    args,           \* the arguments the command was invoked with
    pc,             \* copyProject handler: where it stands
    selectedPaths,  \* copyProject handler: selectedPaths
    log,            \* what the handler has done to the outside, in order
    child,          \* how the launched binary ends: error or standard output
    platform,       \* process.platform of the machine
    bin,            \* the names of the files in the extension's bin directory
    paths,          \* detectProjectFiles: its argument
    det             \* detectProjectFiles: its local state (see DetectStart)

vars == <<files, env, args, pc, selectedPaths, log, child, platform, bin, paths, det>>

(***************************************************************************)
(* Bounds of the model.                                                    *)
(***************************************************************************)
MaxDepth == 2       \* deepest directory below the root
MaxFiles == 2       \* manifest files on disk
MaxPaths == 2       \* paths handed to detectProjectFiles, items selected
MaxCmdFiles == 2    \* manifest files on disk when the command runs
MaxTabs == 2        \* tabs of the active tab group
MaxOut == 4         \* pieces of the binary's standard output

(***************************************************************************)
(* The filesystem.                                                         *)
(***************************************************************************)
Names == {"a", "b"}

\* The directories: / , /a , /b , /a/a , /a/a/a , ... (two siblings below the
\* root and a chain below the first of them).
Dirs ==
    { d \in UNION { [1..k -> Names] : k \in 0..MaxDepth } :
        \A i \in 1..Len(d) : d[i] = "b" => Len(d) = 1 }

CargoName == "Cargo.toml"
PyprojectName == "pyproject.toml"
SetupPyName == "setup.py"
RequirementsName == "requirements.txt"

PythonNames == {PyprojectName, SetupPyName, RequirementsName}
ManifestNames == {CargoName} \cup PythonNames

SourceName == "main.rs"     \* a source file, present in every directory
GoneName == "gone.rs"       \* a file that has been deleted: present nowhere

ManifestPaths == { Append(d, m) : d \in Dirs, m \in ManifestNames }

RECURSIVE SubsetsUpTo(_, _)
SubsetsUpTo(S, n) ==
    IF n = 0 THEN {{}}
    ELSE LET prev == SubsetsUpTo(S, n - 1)
         IN  prev \cup { s \cup {x} : s \in prev, x \in S }

FileSystems == SubsetsUpTo(ManifestPaths, MaxFiles)

\* path.join(dir, name)
Join(dir, name) == Append(dir, name)

\* path.dirname(p): the root is its own parent
Dirname(p) == IF p = <<>> THEN <<>> ELSE SubSeq(p, 1, Len(p) - 1)

\* fs.statSync(p).isFile(), for a path that exists
IsFile(p) == p /= <<>> /\ p[Len(p)] \in ManifestNames \cup {SourceName, GoneName}

\* fs.existsSync(p) on the filesystem fs
ExistsSync(fs, p) ==
    \/ p \in Dirs
    \/ p \in fs
    \/ p /= <<>> /\ p[Len(p)] = SourceName /\ Dirname(p) \in Dirs

\* fs.statSync(p) throws ENOENT when p does not exist
StatThrows(fs, p) == ~ExistsSync(fs, p)

(***************************************************************************)
(* detectProjectFiles (extension.ts 158-210).                              *)
(***************************************************************************)
Null == <<"null">>      \* no path has this shape: every segment of a path is a name

EmptyResult == [cargoToml |-> Null, pythonProject |-> Null]

\* A variant of CheckCargo without the "not yet found" test of line 172.
CheckCargoOverwrite(fs, result, dir) ==
    LET cargoPath == Join(dir, CargoName)
    IN  IF ExistsSync(fs, cargoPath)
        THEN [result EXCEPT !.cargoToml = cargoPath]
        ELSE result

\* Lines 170-174: the Cargo.toml check in directory dir.
CheckCargo(fs, result, dir) ==
    LET cargoPath == Join(dir, CargoName)
    IN  IF ExistsSync(fs, cargoPath) /\ result.cargoToml = Null
        THEN [result EXCEPT !.cargoToml = cargoPath]
        ELSE result

\* A variant of CheckPython that tries the three candidates in reverse order.
CheckPythonReversed(fs, result, dir) ==
    LET pyprojectPath == Join(dir, PyprojectName)
        setupPyPath == Join(dir, SetupPyName)
        requirementsPath == Join(dir, RequirementsName)
    IN  IF ExistsSync(fs, requirementsPath) /\ result.pythonProject = Null
        THEN [result EXCEPT !.pythonProject = requirementsPath]
        ELSE IF ExistsSync(fs, setupPyPath) /\ result.pythonProject = Null
        THEN [result EXCEPT !.pythonProject = setupPyPath]
        ELSE IF ExistsSync(fs, pyprojectPath) /\ result.pythonProject = Null
        THEN [result EXCEPT !.pythonProject = pyprojectPath]
        ELSE result

\* A variant of CheckPython without the "not yet found" tests of lines 181-185.
CheckPythonOverwrite(fs, result, dir) ==
    LET pyprojectPath == Join(dir, PyprojectName)
        setupPyPath == Join(dir, SetupPyName)
        requirementsPath == Join(dir, RequirementsName)
    IN  IF ExistsSync(fs, pyprojectPath)
        THEN [result EXCEPT !.pythonProject = pyprojectPath]
        ELSE IF ExistsSync(fs, setupPyPath)
        THEN [result EXCEPT !.pythonProject = setupPyPath]
        ELSE IF ExistsSync(fs, requirementsPath)
        THEN [result EXCEPT !.pythonProject = requirementsPath]
        ELSE result

\* Lines 176-187: the Python project-file check in directory dir.
CheckPython(fs, result, dir) ==
    LET pyprojectPath == Join(dir, PyprojectName)
        setupPyPath == Join(dir, SetupPyName)
        requirementsPath == Join(dir, RequirementsName)
    IN  IF ExistsSync(fs, pyprojectPath) /\ result.pythonProject = Null
        THEN [result EXCEPT !.pythonProject = pyprojectPath]
        ELSE IF ExistsSync(fs, setupPyPath) /\ result.pythonProject = Null
        THEN [result EXCEPT !.pythonProject = setupPyPath]
        ELSE IF ExistsSync(fs, requirementsPath) /\ result.pythonProject = Null
        THEN [result EXCEPT !.pythonProject = requirementsPath]
        ELSE result

\* Lines 190 and 204: both kinds have been found.
FoundBoth(result) == result.cargoToml /= Null /\ result.pythonProject /= Null

\* Lines 159-162: the state on entry.  pc is "for" at the head of the for
\* loop (line 164), "while" at the head of the while loop (line 169),
\* "returned" after line 209 and "threw" when statSync threw.  examined
\* lists the <<input index, directory>> pairs whose manifests were looked up.
DetectStart ==
    [pc |-> "for", idx |-> 1, dir |-> <<>>, result |-> EmptyResult,
     examined |-> <<>>]

\* Lines 164-166: take the next input path, or return when there is none.
ForStep(fs, ps, d) ==
    IF d.idx > Len(ps)
    THEN [d EXCEPT !.pc = "returned"]
    ELSE LET filePath == ps[d.idx]
         IN  IF StatThrows(fs, filePath)
             THEN [d EXCEPT !.pc = "threw"]
             ELSE [d EXCEPT !.pc = "while",
                            !.dir = IF IsFile(filePath) THEN Dirname(filePath)
                                    ELSE filePath]

\* A variant of WhileStep without the early break of lines 190-192: the walk
\* goes on to the root and only the check after the loop (line 204) applies.
WhileStepNoBreak(fs, ps, d) ==
    LET currentDir == d.dir
        result == CheckPython(fs, CheckCargo(fs, d.result, currentDir), currentDir)
        seen == Append(d.examined, <<d.idx, currentDir>>)
        parentDir == Dirname(currentDir)
    IN  IF parentDir = currentDir
        THEN IF FoundBoth(result)
             THEN [d EXCEPT !.pc = "returned", !.result = result, !.examined = seen]
             ELSE [d EXCEPT !.pc = "for", !.idx = d.idx + 1, !.result = result,
                            !.examined = seen]
        ELSE [d EXCEPT !.dir = parentDir, !.result = result, !.examined = seen]

\* A variant of WhileStep that also ends the walk of the current input path
\* in a directory holding a manifest of a kind that was found before.
WhileStepStopAtRepeat(fs, ps, d) ==
    LET currentDir == d.dir
        result == CheckPython(fs, CheckCargo(fs, d.result, currentDir), currentDir)
        seen == Append(d.examined, <<d.idx, currentDir>>)
        parentDir == Dirname(currentDir)
        repeat ==
            \/ d.result.cargoToml /= Null /\ ExistsSync(fs, Join(currentDir, CargoName))
            \/ d.result.pythonProject /= Null
                /\ \E m \in PythonNames : ExistsSync(fs, Join(currentDir, m))
    IN  IF FoundBoth(result)
        THEN [d EXCEPT !.pc = "returned", !.result = result, !.examined = seen]
        ELSE IF parentDir = currentDir \/ repeat
        THEN [d EXCEPT !.pc = "for", !.idx = d.idx + 1, !.result = result,
                       !.examined = seen]
        ELSE [d EXCEPT !.dir = parentDir, !.result = result, !.examined = seen]

\* A variant of WhileStep without the check of lines 196-198: at the root
\* the loop goes on with the parent, which is the root again.
WhileStepNoRootCheck(fs, ps, d) ==
    LET currentDir == d.dir
        result == CheckPython(fs, CheckCargo(fs, d.result, currentDir), currentDir)
        seen == Append(d.examined, <<d.idx, currentDir>>)
        parentDir == Dirname(currentDir)
    IN  IF FoundBoth(result)
        THEN [d EXCEPT !.pc = "returned", !.result = result, !.examined = seen]
        ELSE [d EXCEPT !.dir = parentDir, !.result = result, !.examined = seen]

\* Lines 169-206: one iteration of the while loop and, when it ends the
\* loop, the check that follows the loop.
WhileStep(fs, ps, d) ==
    LET currentDir == d.dir
        result == CheckPython(fs, CheckCargo(fs, d.result, currentDir), currentDir)
        seen == Append(d.examined, <<d.idx, currentDir>>)
        parentDir == Dirname(currentDir)
    IN  IF FoundBoth(result)
        THEN [d EXCEPT !.pc = "returned", !.result = result, !.examined = seen]
        ELSE IF parentDir = currentDir
        THEN [d EXCEPT !.pc = "for", !.idx = d.idx + 1, !.result = result,
                       !.examined = seen]
        ELSE [d EXCEPT !.dir = parentDir, !.result = result, !.examined = seen]

DetectStep(fs, ps, d) ==
    IF d.pc = "for" THEN ForStep(fs, ps, d) ELSE WhileStep(fs, ps, d)

\* The whole call: the steps run to completion (the function never awaits).
RECURSIVE DetectRun(_, _, _)
DetectRun(fs, ps, d) ==
    IF d.pc \in {"returned", "threw"} THEN d
    ELSE DetectRun(fs, ps, DetectStep(fs, ps, d))

DetectProjectFiles(fs, ps) == DetectRun(fs, ps, DetectStart)

(***************************************************************************)
(* The editor window and the invocation of the command.                    *)
(***************************************************************************)
\* A tab that shows something other than a text document.
OtherTab == <<"other-tab">>

\* The result of a quick pick that was dismissed.
Undefined == <<"undefined">>

\* No binary has been launched.
NoChild == [error |-> FALSE, stdout |-> <<>>]

\* The platforms the build scripts support, by their process.platform.
Platforms == {"darwin", "linux", "win32"}

\* Line 68: the file name looked up in the bin directory.
BinName(p) == IF p = "win32" THEN "llm-cocop-rs.exe" ELSE "llm-cocop"

\* An editor window with nothing open.
QuietEnv ==
    [tabs |-> <<>>, fileNesting |-> FALSE, activeTextEditor |-> Null,
     workspaceFolders |-> <<>>]

(***************************************************************************)
(* Specification of detectProjectFiles alone, one loop step per action.    *)
(***************************************************************************)
\* The input paths: every directory, the source file of each deepest
\* directory and a file that does not exist.
DetectInputs ==
    Dirs \cup { Join(d, SourceName) : d \in { e \in Dirs : Len(e) = MaxDepth } }
         \cup { <<GoneName>> }

PathLists(S, n) == UNION { [1..k -> S] : k \in 1..n }

\* The call of line 77 has just been made with some list of selected paths.
DetectInit ==
    /\ files \in FileSystems
    /\ paths \in PathLists(DetectInputs, MaxPaths)
    /\ det = DetectStart
    /\ selectedPaths = paths
    /\ pc = "detecting"
    /\ env = QuietEnv
    /\ args = [uri |-> Null, selection |-> {}]
    /\ log = <<>>
    /\ child = NoChild
    /\ platform = "linux"
    /\ bin = {BinName(platform)}

ForNext ==
    /\ det.pc = "for"
    /\ det' = ForStep(files, paths, det)
    /\ UNCHANGED <<files, env, args, pc, selectedPaths, log, child, platform, bin, paths>>

WhileBody ==
    /\ det.pc = "while"
    /\ det' = WhileStep(files, paths, det)
    /\ UNCHANGED <<files, env, args, pc, selectedPaths, log, child, platform, bin, paths>>

DetectNext == ForNext \/ WhileBody

SpecDetect == DetectInit /\ [][DetectNext]_vars

(***************************************************************************)
(* The copyProject command handler (extension.ts 9-136).                   *)
(***************************************************************************)
SeqsUpTo(S, n) == UNION { [1..k -> S] : k \in 0..n }

\* What the command can be pointed at: two folders, their source files, two
\* manifests (present only when the filesystem holds them) and a deleted file.
UiDirs == { d \in Dirs : Len(d) = 1 }
TabFiles == { Join(d, SourceName) : d \in UiDirs } \cup { <<GoneName>> }
EditorFiles == { Join(<<"a">>, SourceName), <<GoneName>> }
UiPaths ==
    UiDirs \cup TabFiles
        \cup { Join(<<"a">>, CargoName), Join(<<"a">>, RequirementsName) }

\* The manifests the command comes across from there: Cargo.toml and one of
\* the Python candidates, in the first folder and in the root.
CmdManifestPaths ==
    { Append(d, m) : d \in {<<"a">>, <<>>}, m \in {CargoName, RequirementsName} }

FolderLists ==
    { w \in SeqsUpTo(UiDirs, Cardinality(UiDirs)) :
        \A i, j \in 1..Len(w) : i /= j => w[i] /= w[j] }

Envs ==
    { [tabs |-> t, fileNesting |-> n, activeTextEditor |-> e, workspaceFolders |-> w] :
        t \in SeqsUpTo(TabFiles \cup {OtherTab}, MaxTabs), n \in BOOLEAN,
        e \in EditorFiles \cup {Null}, w \in FolderLists }

\* Invoked from a context menu: the item clicked is the first argument; the
\* Explorer hands over all selected items, the clicked one among them, as
\* the second argument.
MenuArgs ==
    { a \in [uri : UiPaths, selection : SubsetsUpTo(UiPaths, MaxPaths)] :
        a.uri \in a.selection }

\* Invoked from the Command Palette: no arguments.
PaletteArgs == [uri |-> Null, selection |-> {}]

\* The entries of log.
ErrorMessage(text) == [kind |-> "error", val |-> text]
InformationMessage(values) == [kind |-> "info", val |-> values]
ProgressReport(message) == [kind |-> "progress", val |-> <<message>>]
ProgressOpened == [kind |-> "withProgress", val |-> <<"Copying selected files">>]
QuickPickShown(options) == [kind |-> "showQuickPick", val |-> options]
QuickPickAnswer(choice) == [kind |-> "picked", val |-> choice]
ExecLaunched(command) == [kind |-> "exec", val |-> command]

\* Lines 142-150: undefined with explorer.experimentalFileNesting set, else
\* the documents of the text tabs of the active tab group.
GetExplorerSelection(e) ==
    IF e.fileNesting
    THEN [defined |-> FALSE, uris |-> <<>>]
    ELSE [defined |-> TRUE, uris |-> SelectSeq(e.tabs, LAMBDA t : t /= OtherTab)]

\* A variant of ChoosePaths that asks for the active editor before the selection.
ChoosePathsEditorFirst(a, e) ==
    IF a.uri /= Null
    THEN [to |-> "havePaths", sel |-> <<a.uri>>, out |-> <<>>]
    ELSE LET explorerSelection == GetExplorerSelection(e)
         IN  IF e.activeTextEditor /= Null
             THEN [to |-> "havePaths", sel |-> <<e.activeTextEditor>>, out |-> <<>>]
             ELSE IF explorerSelection.defined /\ Len(explorerSelection.uris) > 0
             THEN [to |-> "havePaths", sel |-> explorerSelection.uris, out |-> <<>>]
             ELSE IF Len(e.workspaceFolders) = 0
             THEN [to |-> "done", sel |-> <<>>,
                   out |-> <<ErrorMessage(<<"No workspace folder is open.">>)>>]
             ELSE IF Len(e.workspaceFolders) > 1
             THEN [to |-> "quickPick", sel |-> <<>>,
                   out |-> <<QuickPickShown(e.workspaceFolders)>>]
             ELSE [to |-> "havePaths", sel |-> <<e.workspaceFolders[1]>>, out |-> <<>>]

\* Lines 11-58, up to the await of showQuickPick: where the handler goes
\* next, the paths it has selected and what it has shown.
ChoosePaths(a, e) ==
    IF a.uri /= Null
    THEN [to |-> "havePaths", sel |-> <<a.uri>>, out |-> <<>>]
    ELSE LET explorerSelection == GetExplorerSelection(e)
         IN  IF explorerSelection.defined /\ Len(explorerSelection.uris) > 0
             THEN [to |-> "havePaths", sel |-> explorerSelection.uris, out |-> <<>>]
             ELSE IF e.activeTextEditor /= Null
             THEN [to |-> "havePaths", sel |-> <<e.activeTextEditor>>, out |-> <<>>]
             ELSE IF Len(e.workspaceFolders) = 0
             THEN [to |-> "done", sel |-> <<>>,
                   out |-> <<ErrorMessage(<<"No workspace folder is open.">>)>>]
             ELSE IF Len(e.workspaceFolders) > 1
             THEN [to |-> "quickPick", sel |-> <<>>,
                   out |-> <<QuickPickShown(e.workspaceFolders)>>]
             ELSE [to |-> "havePaths", sel |-> <<e.workspaceFolders[1]>>, out |-> <<>>]

\* Lines 67-68: binPath.
BinPath == <<"extension", "bin", BinName(platform)>>

\* Line 71: fs.existsSync(binPath).
BinExists == BinName(platform) \in bin

\* The pieces of the command line: a double-quoted path or a bare option.
Quoted(p) == [kind |-> "quoted", val |-> p]
Option(name) == [kind |-> "option", val |-> <<name>>]

\* Array.prototype.includes
Includes(list, x) == \E i \in 1..Len(list) : list[i] = x

\* A variant of CommandArgs that passes every detected manifest.
CommandArgsAlways(sel, projectFiles) ==
    [i \in 1..Len(sel) |-> Quoted(sel[i])]
        \o (IF projectFiles.cargoToml /= Null
            THEN <<Option("--cargo-toml"), Quoted(projectFiles.cargoToml)>>
            ELSE <<>>)
        \o (IF projectFiles.pythonProject /= Null
            THEN <<Option("--pyproject"), Quoted(projectFiles.pythonProject)>>
            ELSE <<>>)

\* Lines 90-100: commandArgs.
CommandArgs(sel, projectFiles) ==
    [i \in 1..Len(sel) |-> Quoted(sel[i])]
        \o (IF projectFiles.cargoToml /= Null /\ ~Includes(sel, projectFiles.cargoToml)
            THEN <<Option("--cargo-toml"), Quoted(projectFiles.cargoToml)>>
            ELSE <<>>)
        \o (IF projectFiles.pythonProject /= Null
               /\ ~Includes(sel, projectFiles.pythonProject)
            THEN <<Option("--pyproject"), Quoted(projectFiles.pythonProject)>>
            ELSE <<>>)

\* A variant of Command that puts the overrides in front of the paths.
CommandOptionsFirst(sel, projectFiles) ==
    LET commandArgs == CommandArgs(sel, projectFiles)
    IN  <<Quoted(BinPath)>>
            \o SubSeq(commandArgs, Len(sel) + 1, Len(commandArgs))
            \o SubSeq(commandArgs, 1, Len(sel))

\* Line 102: command.
Command(sel, projectFiles) == <<Quoted(BinPath)>> \o CommandArgs(sel, projectFiles)

(***************************************************************************)
(* The summary values read from the binary's standard output (116-127).    *)
(* Standard output is a sequence of pieces: the four literal texts of the  *)
(* patterns, single digits, a letter and a line break.                     *)
(***************************************************************************)
FilesLit == "Files processed: "
SizeLit == "Total size: "
CharsLit == " characters"
TypeLit == "Project type: "
LineBreak == "\n"

Digits == {"1", "2"}        \* match \d and \w
Letters == {"r"}            \* match \w only
Pieces == {FilesLit, SizeLit, CharsLit, TypeLit, LineBreak} \cup Digits \cup Letters

\* The word characters a piece begins with, when it is not made of word
\* characters only: \w+ running into a literal text takes its first word.
WordLead(piece) ==
    CASE piece = FilesLit -> "Files"
      [] piece = SizeLit -> "Total"
      [] piece = TypeLit -> "Project"
      [] OTHER -> ""

\* (\d+) from position i on: greedy.
RECURSIVE DigitRun(_, _)
DigitRun(s, i) ==
    IF i <= Len(s) /\ s[i] \in Digits THEN <<s[i]>> \o DigitRun(s, i + 1) ELSE <<>>

\* (\w+) from position i on: greedy.
RECURSIVE WordRun(_, _)
WordRun(s, i) ==
    IF i > Len(s) THEN <<>>
    ELSE IF s[i] \in Digits \cup Letters THEN <<s[i]>> \o WordRun(s, i + 1)
    ELSE IF WordLead(s[i]) /= "" THEN <<WordLead(s[i])>>
    ELSE <<>>

NoMatch == [matched |-> FALSE, group |-> <<>>]

\* Line 117: stdout.match(/Files processed: (\d+)/), tried from position i on.
RECURSIVE FilesScan(_, _)
FilesScan(s, i) ==
    IF i > Len(s) THEN NoMatch
    ELSE IF s[i] = FilesLit /\ DigitRun(s, i + 1) /= <<>>
    THEN [matched |-> TRUE, group |-> DigitRun(s, i + 1)]
    ELSE FilesScan(s, i + 1)

\* Line 118: stdout.match(/Total size: (\d+) characters/), from position i on.
RECURSIVE SizeScan(_, _)
SizeScan(s, i) ==
    IF i > Len(s) THEN NoMatch
    ELSE LET run == DigitRun(s, i + 1)
             after == i + 1 + Len(run)
         IN  IF s[i] = SizeLit /\ run /= <<>> /\ after <= Len(s) /\ s[after] = CharsLit
             THEN [matched |-> TRUE, group |-> run]
             ELSE SizeScan(s, i + 1)

\* Line 119: stdout.match(/Project type: (\w+)/), from position i on.
RECURSIVE TypeScan(_, _)
TypeScan(s, i) ==
    IF i > Len(s) THEN NoMatch
    ELSE IF s[i] = TypeLit /\ WordRun(s, i + 1) /= <<>>
    THEN [matched |-> TRUE, group |-> WordRun(s, i + 1)]
    ELSE TypeScan(s, i + 1)

\* A variant of Summary that reports the values only when all three
\* patterns occur.
SummaryAllOrNothing(stdout) ==
    LET filesMatch == FilesScan(stdout, 1)
        sizeMatch == SizeScan(stdout, 1)
        typeMatch == TypeScan(stdout, 1)
    IN  IF filesMatch.matched /\ sizeMatch.matched /\ typeMatch.matched
        THEN <<filesMatch.group, sizeMatch.group, typeMatch.group>>
        ELSE <<<<"multiple">>, <<"unknown">>, <<"unknown">>>>

\* Lines 117-123: <<filesCount, charCount, projectType>>.
Summary(stdout) ==
    LET filesMatch == FilesScan(stdout, 1)
        sizeMatch == SizeScan(stdout, 1)
        typeMatch == TypeScan(stdout, 1)
    IN  << IF filesMatch.matched THEN filesMatch.group ELSE <<"multiple">>,
           IF sizeMatch.matched THEN sizeMatch.group ELSE <<"unknown">>,
           IF typeMatch.matched THEN typeMatch.group ELSE <<"unknown">> >>

\* How the binary can end: with an error, or with some standard output.
Failure == [error |-> TRUE, stdout |-> <<>>]
Success(stdout) == [error |-> FALSE, stdout |-> stdout]

FullSummary ==
    <<FilesLit, "2", LineBreak, SizeLit, "1", "2", CharsLit, LineBreak, TypeLit, "r">>

SampleOutcomes == {Failure, Success(FullSummary)}
AllOutcomes == {Failure} \cup { Success(s) : s \in SeqsUpTo(Pieces, MaxOut) }

(***************************************************************************)
(* The steps of the handler.                                               *)
(***************************************************************************)
\* Lines 9-58, up to the await of showQuickPick.
CopyProject ==
    /\ pc = "idle"
    /\ LET r == ChoosePaths(args, env)
       IN  /\ pc' = r.to
           /\ selectedPaths' = r.sel
           /\ log' = log \o r.out
    /\ UNCHANGED <<files, env, args, child, platform, bin, paths, det>>

\* Lines 45-53: the quick pick resolves, with a folder or with undefined.
QuickPickReturns ==
    /\ pc = "quickPick"
    /\ \E selectedFolder \in
            { env.workspaceFolders[i] : i \in 1..Len(env.workspaceFolders) }
                \cup {Undefined} :
          /\ log' = Append(log, QuickPickAnswer(selectedFolder))
          /\ IF selectedFolder = Undefined
             THEN pc' = "done" /\ UNCHANGED selectedPaths
             ELSE pc' = "havePaths" /\ selectedPaths' = <<selectedFolder>>
    /\ UNCHANGED <<files, env, args, child, platform, bin, paths, det>>

\* A variant of PrepareRun without the check of lines 71-74: detection is
\* called whether or not the binary exists.
PrepareRunNoBinaryCheck ==
    /\ pc = "havePaths"
    /\ IF Len(selectedPaths) = 0
       THEN /\ log' = Append(log, ErrorMessage(<<"No files or directories selected.">>))
            /\ pc' = "done"
            /\ UNCHANGED <<paths, det>>
       ELSE LET d == DetectProjectFiles(files, selectedPaths)
            IN  /\ paths' = selectedPaths
                /\ det' = d
                /\ IF d.pc = "threw"
                   THEN /\ log' = Append(log, ErrorMessage(<<"Error: ", "ENOENT">>))
                        /\ pc' = "done"
                   ELSE /\ log' = log
                        /\ pc' = "detected"
    /\ UNCHANGED <<files, env, args, selectedPaths, child, platform, bin>>

\* Lines 60-77 and, when detectProjectFiles throws, the catch of 133-135.
PrepareRun ==
    /\ pc = "havePaths"
    /\ LET binExists == BinExists
       IN IF Len(selectedPaths) = 0
          THEN /\ log' = Append(log, ErrorMessage(<<"No files or directories selected.">>))
               /\ pc' = "done"
               /\ UNCHANGED <<paths, det>>
          ELSE IF ~binExists
          THEN /\ log' = Append(log, ErrorMessage(
                       <<"Code Copier binary not found. Please check the installation.">>))
               /\ pc' = "done"
               /\ UNCHANGED <<paths, det>>
          ELSE LET d == DetectProjectFiles(files, selectedPaths)
               IN  /\ paths' = selectedPaths
                   /\ det' = d
                   /\ IF d.pc = "threw"
                      THEN /\ log' = Append(log, ErrorMessage(<<"Error: ", "ENOENT">>))
                           /\ pc' = "done"
                      ELSE /\ log' = log
                           /\ pc' = "detected"
    /\ UNCHANGED <<files, env, args, selectedPaths, child, platform, bin>>

\* Lines 80-105: the progress notification opens and the binary is launched.
WithProgress ==
    /\ pc = "detected"
    /\ log' = log \o <<ProgressOpened, ProgressReport("Starting..."),
                       ExecLaunched(Command(selectedPaths, det.result))>>
    /\ child' \in SampleOutcomes
    /\ pc' = "running"
    /\ UNCHANGED <<files, env, args, selectedPaths, platform, bin, paths, det>>

\* A variant of ExecCallback in which the rejection of line 111 reaches the
\* catch block of lines 133-135, as it would if the handler awaited
\* withProgress: a failed run is then reported a second time.
ExecCallbackCaught ==
    /\ pc = "running"
    /\ IF child.error
       THEN log' = log \o <<ErrorMessage(<<"Error copying files: ", "exit">>),
                            ErrorMessage(<<"Error: ", "exit">>)>>
       ELSE log' = log \o <<ProgressReport("Complete!"),
                            InformationMessage(Summary(child.stdout))>>
    /\ pc' = "done"
    /\ UNCHANGED <<files, env, args, selectedPaths, child, platform, bin, paths, det>>

\* Lines 105-130: the callback of exec.
ExecCallback ==
    /\ pc = "running"
    /\ IF child.error
       THEN log' = Append(log, ErrorMessage(<<"Error copying files: ", "exit">>))
       ELSE log' = log \o <<ProgressReport("Complete!"),
                            InformationMessage(Summary(child.stdout))>>
    /\ pc' = "done"
    /\ UNCHANGED <<files, env, args, selectedPaths, child, platform, bin, paths, det>>

Init ==
    /\ files \in SubsetsUpTo(CmdManifestPaths, MaxCmdFiles)
    /\ \/ args \in MenuArgs /\ env = QuietEnv
       \/ args = PaletteArgs /\ env \in Envs
    /\ platform \in Platforms
    /\ bin \in {{}, {BinName(platform)}}
    /\ pc = "idle"
    /\ selectedPaths = <<>>
    /\ log = <<>>
    /\ child = NoChild
    /\ paths = <<>>
    /\ det = DetectStart

Next ==
    \/ CopyProject
    \/ QuickPickReturns
    \/ PrepareRun
    \/ WithProgress
    \/ ExecCallback

Spec == Init /\ [][Next]_vars

(***************************************************************************)
(* Specification of the exec callback alone: the binary has been launched  *)
(* on the folder /a and ends in any of the bounded ways.                   *)
(***************************************************************************)
OutInit ==
    /\ platform = "linux"
    /\ bin = {BinName(platform)}
    /\ files = {}
    /\ args = [uri |-> <<"a">>, selection |-> {<<"a">>}]
    /\ env = QuietEnv
    /\ selectedPaths = <<<<"a">>>>
    /\ paths = selectedPaths
    /\ det = DetectProjectFiles(files, selectedPaths)
    /\ log = <<ProgressOpened, ProgressReport("Starting..."),
               ExecLaunched(Command(selectedPaths, det.result))>>
    /\ child \in AllOutcomes
    /\ pc = "running"

SpecOut == OutInit /\ [][ExecCallback]_vars

(***************************************************************************)
(* The build scripts: build.sh (macOS, Linux, and Windows under msys) and  *)
(* build.bat (Windows).  Both build the Rust binary, copy it into bin/ and *)
(* package the extension; under SpecBuild the command is invoked on the    *)
(* extension that a script has built in a clean checkout.                  *)
(***************************************************************************)
Scripts == {"build.sh", "build.bat"}

\* build.sh decides by $OSTYPE (lines 18-32); build.bat is a Windows script.
RunsOn(script, p) == script = "build.sh" \/ p = "win32"

\* The name of the file copied into bin/: build.sh lines 20, 24 and 28,
\* build.bat line 19.
BuiltName(script, p) ==
    IF script = "build.bat" THEN "llm-cocop-rs.exe"
    ELSE IF p = "darwin" THEN "llm-cocop-rs"
    ELSE IF p = "linux" THEN "llm-cocop-rs"
    ELSE "llm-cocop-rs.exe"

\* Where a script can stop: cargo build fails (build.sh line 11 under set -e,
\* build.bat lines 8-12), a packaging step after the copy fails, or nothing.
BuildFailures == {"none", "cargo", "package"}

\* One run of a build script.
Build ==
    /\ pc = "unbuilt"
    /\ \E script \in Scripts, failure \in BuildFailures :
          /\ RunsOn(script, platform)
          /\ bin' = IF failure = "cargo" THEN bin
                    ELSE bin \cup {BuiltName(script, platform)}
          /\ pc' = IF failure = "none" THEN "idle" ELSE "buildFailed"
    /\ UNCHANGED <<files, env, args, selectedPaths, log, child, platform, paths, det>>

\* A clean checkout on one of the platforms, and a workspace without manifests.
BuildInit ==
    /\ files = {}
    /\ \/ args \in MenuArgs /\ env = QuietEnv
       \/ args = PaletteArgs /\ env \in Envs
    /\ platform \in Platforms
    /\ bin = {}
    /\ pc = "unbuilt"
    /\ selectedPaths = <<>>
    /\ log = <<>>
    /\ child = NoChild
    /\ paths = <<>>
    /\ det = DetectStart

BuildNext == Build \/ Next

SpecBuild == BuildInit /\ [][BuildNext]_vars

(***************************************************************************)
(* Properties of detectProjectFiles, checked under SpecDetect.             *)
(***************************************************************************)
\* The directories from d up to the root, d included.
Chain(d) == { SubSeq(d, 1, k) : k \in 0..Len(d) }

\* Where the walk for input path p starts: p itself if it is a directory,
\* the directory that contains it if it is a file.
StartDir(p) == IF p \in Dirs THEN p ELSE SubSeq(p, 1, Len(p) - 1)

\* Directory d holds a manifest whose name is in K.
Holds(d, K) == \E m \in K : Append(d, m) \in files

\* The directories on the chain of d that hold a manifest with a name in K.
Holders(d, K) == { c \in Chain(d) : Holds(c, K) }

\* The nearest of them: the longest one.
Nearest(d, K) ==
    CHOOSE c \in Holders(d, K) : \A o \in Holders(d, K) : Len(o) <= Len(c)

\* The directory a recorded manifest lies in.
DirOf(manifest) == SubSeq(manifest, 1, Len(manifest) - 1)

\* C1: for a single input path and for each kind independently, the result
\* is the manifest in the nearest directory, on the chain from the start
\* directory up to the root, that holds a manifest of that kind, and null
\* when no directory on the chain holds one.
C1_NearestPerKind ==
    (det.pc = "returned" /\ Len(paths) = 1) =>
        LET start == StartDir(paths[1])
        IN  /\ IF Holders(start, {CargoName}) = {}
               THEN det.result.cargoToml = Null
               ELSE det.result.cargoToml = Append(Nearest(start, {CargoName}), CargoName)
            /\ IF Holders(start, PythonNames) = {}
               THEN det.result.pythonProject = Null
               ELSE /\ det.result.pythonProject \in files
                    /\ det.result.pythonProject[Len(det.result.pythonProject)] \in PythonNames
                    /\ DirOf(det.result.pythonProject) = Nearest(start, PythonNames)

\* A single input file two levels down; Cargo.toml exists one level up and
\* at the root, no Python manifest exists on the chain.
C1_Witness ==
    /\ det.pc = "returned" /\ Len(paths) = 1
    /\ paths[1] \notin Dirs /\ Len(StartDir(paths[1])) = 2
    /\ Holders(StartDir(paths[1]), {CargoName}) = {<<>>, <<"a">>}
    /\ det.result.cargoToml = <<"a", CargoName>>
    /\ det.result.pythonProject = Null

\* Priority of the Python candidates: a smaller rank is preferred.
Rank(m) == CASE m = PyprojectName -> 1 [] m = SetupPyName -> 2 [] OTHER -> 3

\* The preferred Python candidate present in directory d.
BestPython(d) ==
    CHOOSE m \in PythonNames :
        /\ Append(d, m) \in files
        /\ \A o \in PythonNames : Append(d, o) \in files => Rank(m) <= Rank(o)

\* C2: in a directory with several Python candidates pyproject.toml is
\* selected over setup.py and setup.py over requirements.txt, and a
\* lower-priority candidate in a nearer directory is preferred to a
\* higher-priority candidate further up (the walk of the first input path).
C2_PythonPriority ==
    (det.pc = "returned" /\ Holders(StartDir(paths[1]), PythonNames) /= {}) =>
        LET near == Nearest(StartDir(paths[1]), PythonNames)
        IN  det.result.pythonProject = Append(near, BestPython(near))

\* The nearest directory with a Python candidate holds requirements.txt, a
\* directory further up holds pyproject.toml: the nearer file is returned.
C2_Witness ==
    /\ det.pc = "returned"
    /\ LET start == StartDir(paths[1])
       IN  /\ Holders(start, PythonNames) /= {}
           /\ LET near == Nearest(start, PythonNames)
              IN  /\ Append(near, RequirementsName) \in files
                  /\ \E up \in Chain(near) \ {near} : Append(up, PyprojectName) \in files
                  /\ det.result.pythonProject = Append(near, RequirementsName)

\* A recorded manifest stays: one step never changes a field that is set.
NeverReplaced ==
    /\ det.result.cargoToml /= Null => det'.result.cargoToml = det.result.cargoToml
    /\ det.result.pythonProject /= Null =>
           det'.result.pythonProject = det.result.pythonProject

\* Two sibling directories, both inputs, each holding requirements.txt and
\* no other Python manifest on the way up from the first.
SiblingInputs ==
    /\ Len(paths) = 2
    /\ paths[1] \in Dirs /\ paths[2] \in Dirs
    /\ Len(paths[1]) = 1 /\ Len(paths[2]) = 1 /\ paths[1] /= paths[2]
    /\ Append(paths[1], RequirementsName) \in files
    /\ Append(paths[2], RequirementsName) \in files
    /\ \A m \in PythonNames \ {RequirementsName} : Append(paths[1], m) \notin files

\* C3: with several input paths a manifest recorded for a kind is never
\* replaced afterwards, neither higher up in the same walk nor by a later
\* input path; for two sibling directories that each hold requirements.txt
\* the result is the requirements.txt of the first input path.
C3_FirstMatchKept ==
    /\ [][NeverReplaced]_vars
    /\ [](det.pc = "returned" /\ SiblingInputs =>
              det.result.pythonProject = Append(paths[1], RequirementsName))

\* The sibling case after both walks: the second directory was examined and
\* its requirements.txt did not replace the first one.
C3_Witness ==
    /\ det.pc = "returned" /\ SiblingInputs
    /\ \E k \in 1..Len(det.examined) : det.examined[k] = <<2, paths[2]>>
    /\ det.result.pythonProject = Append(paths[1], RequirementsName)

\* C4: the walk stops as soon as a manifest has been found for both kinds:
\* the function has returned, and the last directory examined is the one in
\* which the second of the two manifests was found; no higher directory of
\* that input path and no later input path has been examined.
C4_StopsWhenBothFound ==
    FoundBoth(det.result) =>
        /\ det.pc = "returned"
        /\ LET last == det.examined[Len(det.examined)]
           IN  /\ last[1] = det.idx
               /\ last[2] \in {DirOf(det.result.cargoToml), DirOf(det.result.pythonProject)}
               /\ \A k \in 1..(Len(det.examined) - 1) :
                      det.examined[k][2] /= last[2] \/ det.examined[k][1] /= last[1]

\* Both kinds found below the root while walking the first of two input paths.
C4_Witness ==
    /\ FoundBoth(det.result) /\ det.pc = "returned"
    /\ Len(paths) = 2 /\ det.idx = 1
    /\ det.examined[Len(det.examined)][2] /= <<>>
    /\ DirOf(det.result.cargoToml) /= DirOf(det.result.pythonProject)

\* Entry k of the log is a directory that holds a manifest of a kind for
\* which the walk of the same input path found one at a lower level.
HitAgain(k) ==
    LET i == det.examined[k][1]
        d == det.examined[k][2]
        lower(m) == /\ m /= Null
                    /\ DirOf(m) \in Chain(StartDir(paths[i]))
                    /\ Len(DirOf(m)) > Len(d)
    IN  \/ Holds(d, {CargoName}) /\ lower(det.result.cargoToml)
        \/ Holds(d, PythonNames) /\ lower(det.result.pythonProject)

\* C5 as stated: the walk for an input path stops at a higher directory that
\* holds a manifest of a kind already found lower down; no directory above
\* it is examined for that input path.
C5_StopsAtRepeat ==
    \A k \in 1..(Len(det.examined) - 1) :
        HitAgain(k) => det.examined[k + 1][1] /= det.examined[k][1]

\* Entry k of the log is the last directory examined for its input path.
EndsWalk(k) ==
    IF k = Len(det.examined)
    THEN det.pc = "returned" \/ det.idx > det.examined[k][1]
    ELSE det.examined[k + 1][1] /= det.examined[k][1]

\* C5 amended: a higher directory holding a manifest of a kind found lower
\* down does not end the walk; the walk for an input path ends only in the
\* directory where both kinds are complete or at the root, and every step
\* in between goes to the parent directory.
C5_WalkEndsOnlyAtRootOrBoth ==
    \A k \in 1..Len(det.examined) :
        /\ EndsWalk(k) => (det.examined[k][2] = <<>> \/ FoundBoth(det.result))
        /\ (k < Len(det.examined) /\ ~EndsWalk(k)) =>
               /\ det.examined[k][2] /= <<>>
               /\ det.examined[k + 1][2] = DirOf(det.examined[k][2])

\* A walk that met such a directory and went on to the directory above it.
C5_Witness ==
    /\ det.pc = "returned"
    /\ \E k \in 1..(Len(det.examined) - 1) :
           HitAgain(k) /\ det.examined[k + 1] = <<det.examined[k][1], DirOf(det.examined[k][2])>>

(***************************************************************************)
(* Properties of the command handler, checked under Spec.                  *)
(***************************************************************************)
\* The binary has been launched.
Launched == \E k \in 1..Len(log) : log[k].kind = "exec"

\* The command line it was launched with.
LaunchedCommand == log[CHOOSE k \in 1..Len(log) : log[k].kind = "exec"].val

\* C6 as stated: a selected path that does not exist is a per-path error;
\* once the binary is known to exist and detection has been called, a run
\* with at least one existing selected path still launches the binary with
\* the existing paths.
C6_MissingPathNonFatal ==
    (/\ pc = "done"
     /\ paths = selectedPaths /\ Len(selectedPaths) > 0
     /\ \E i \in 1..Len(selectedPaths) : ExistsSync(files, selectedPaths[i])) =>
        /\ Launched
        /\ \A i \in 1..Len(selectedPaths) :
               ExistsSync(files, selectedPaths[i]) =>
                   Includes(LaunchedCommand, Quoted(selectedPaths[i]))

\* C7 as stated: invoked from the Explorer context menu, every item of the
\* Explorer selection is among the paths passed to the binary.
C7_EverySelectedPassed ==
    (args.uri /= Null /\ Launched) =>
        \A p \in args.selection : Includes(LaunchedCommand, Quoted(p))

\* The quick pick has been shown.
Prompted == \E k \in 1..Len(log) : log[k].kind = "showQuickPick"

\* The quick pick has been answered with choice.
Answered(choice) == \E k \in 1..Len(log) : log[k] = QuickPickAnswer(choice)

\* The command has ended without a path and without launching anything.
EndedWithoutPath == pc = "done" /\ selectedPaths = <<>> /\ ~Launched

\* The user is asked for one of the open folders: the handler waits for the
\* answer, or has ended on a dismissal, or uses the folder picked.
AskedForFolder ==
    /\ Prompted
    /\ \/ pc = "quickPick" /\ selectedPaths = <<>>
       \/ Answered(Undefined) /\ EndedWithoutPath
       \/ \E i \in 1..Len(env.workspaceFolders) :
              /\ Answered(env.workspaceFolders[i])
              /\ selectedPaths = <<env.workspaceFolders[i]>>

\* The documents of the text tabs, unless file nesting hides them.
CurrentSelection ==
    IF env.fileNesting THEN <<>>
    ELSE SelectSeq(env.tabs, LAMBDA t : t /= OtherTab)

OptionAt(cmd, name) == { k \in 1..Len(cmd) : cmd[k] = Option(name) }

\* The option name is passed exactly when manifest was detected and is not
\* one of the selected paths, at most once, followed by the detected path.
Override(cmd, name, manifest) ==
    /\ OptionAt(cmd, name) /= {} <=>
           (manifest /= Null /\ \A i \in 1..Len(selectedPaths) : selectedPaths[i] /= manifest)
    /\ Cardinality(OptionAt(cmd, name)) <= 1
    /\ \A k \in OptionAt(cmd, name) : k < Len(cmd) /\ cmd[k + 1] = Quoted(manifest)

\* C9: the binary is invoked with --cargo-toml <path> exactly when a Rust
\* manifest was detected and is not itself a selected path, with
\* --pyproject <path> exactly when a Python project file was detected and is
\* not itself a selected path; the path is the detected one, and the
\* detected one is what detectProjectFiles returns for the selected paths.
C9_OverridesWhenDetected ==
    Launched =>
        /\ det = DetectProjectFiles(files, selectedPaths) /\ det.pc = "returned"
        /\ Override(LaunchedCommand, "--cargo-toml", det.result.cargoToml)
        /\ Override(LaunchedCommand, "--pyproject", det.result.pythonProject)

\* The selected path is the detected Cargo.toml (no --cargo-toml), and a
\* Python project file was detected elsewhere (--pyproject is passed).
C9_Witness ==
    /\ Launched
    /\ det.result.cargoToml /= Null /\ Includes(selectedPaths, det.result.cargoToml)
    /\ OptionAt(LaunchedCommand, "--cargo-toml") = {}
    /\ det.result.pythonProject /= Null
    /\ OptionAt(LaunchedCommand, "--pyproject") /= {}

(***************************************************************************)
(* Properties of the summary values, checked under SpecOut.                *)
(***************************************************************************)
\* The last position of the run of pieces from S that starts at position i
\* (i - 1 when s[i] is not in S).
RunEnd(s, i, S) ==
    CHOOSE j \in (i - 1)..Len(s) :
        /\ \A k \in i..j : s[k] \in S
        /\ j = Len(s) \/ s[j + 1] \notin S

\* The text (\w+) takes after the literal at position i.
TypeText(s, i) ==
    LET j == RunEnd(s, i + 1, Digits \cup Letters)
    IN  IF j < Len(s) /\ s[j + 1] \in {FilesLit, SizeLit, TypeLit}
        THEN Append(SubSeq(s, i + 1, j), WordLead(s[j + 1]))
        ELSE SubSeq(s, i + 1, j)

\* The positions where each pattern occurs.
FilesOcc(s) ==
    { i \in 1..Len(s) : s[i] = FilesLit /\ RunEnd(s, i + 1, Digits) > i }
SizeOcc(s) ==
    { i \in 1..Len(s) :
        /\ s[i] = SizeLit
        /\ LET j == RunEnd(s, i + 1, Digits)
           IN  j > i /\ j < Len(s) /\ s[j + 1] = CharsLit }
TypeOcc(s) ==
    { i \in 1..Len(s) : s[i] = TypeLit /\ TypeText(s, i) /= <<>> }

First(S) == CHOOSE i \in S : \A j \in S : i <= j

\* The notification shown after a successful run.
Reported == log[Len(log)]

\* C10: after a successful run the notification reports, for each of the
\* three patterns independently, the text captured at the pattern's first
\* occurrence in standard output, and the fallback 'multiple', 'unknown',
\* 'unknown' when the pattern does not occur.
C10_SummaryValues ==
    (pc = "done" /\ ~child.error) =>
        LET s == child.stdout
        IN  /\ Reported.kind = "info"
            /\ Reported.val[1] =
                   IF FilesOcc(s) = {} THEN <<"multiple">>
                   ELSE SubSeq(s, First(FilesOcc(s)) + 1,
                               RunEnd(s, First(FilesOcc(s)) + 1, Digits))
            /\ Reported.val[2] =
                   IF SizeOcc(s) = {} THEN <<"unknown">>
                   ELSE SubSeq(s, First(SizeOcc(s)) + 1,
                               RunEnd(s, First(SizeOcc(s)) + 1, Digits))
            /\ Reported.val[3] =
                   IF TypeOcc(s) = {} THEN <<"unknown">>
                   ELSE TypeText(s, First(TypeOcc(s)))

\* Standard output with the files and type patterns but without the size
\* pattern: two values are captured, the third is the fallback.
C10_Witness ==
    /\ pc = "done" /\ ~child.error
    /\ FilesOcc(child.stdout) /= {} /\ SizeOcc(child.stdout) = {}
    /\ TypeOcc(child.stdout) /= {}
    /\ Reported.val = <<<<"2">>, <<"unknown">>, <<"r">>>>

(***************************************************************************)
(* Properties of the launch and of its outcome, checked under Spec.        *)
(***************************************************************************)
\* The positions of the log entries of one kind.
Entries(kind) == { k \in 1..Len(log) : log[k].kind = kind }

\* The 'Complete!' progress report has been made.
Completed == \E k \in 1..Len(log) : log[k] = ProgressReport("Complete!")

\* C11: once a launched binary has failed and its callback has run, the
\* invocation has shown exactly one error message and neither the 'Complete!'
\* progress report nor the 'Files copied to clipboard!' notification; the
\* notification appears only after the launch of a binary that ended without
\* error, and at most once.
C11_FailureShownOnce ==
    /\ (Launched /\ child.error) =>
          /\ ~Completed
          /\ Entries("info") = {}
          /\ pc = "done" => Cardinality(Entries("error")) = 1
    /\ \A k \in Entries("info") :
          /\ ~child.error
          /\ \E j \in Entries("exec") : j < k
          /\ Entries("error") = {}
          /\ Entries("info") = {k}

\* A launched binary failed and the callback has run.
C11_Witness ==
    /\ pc = "done" /\ Launched /\ child.error
    /\ log[Len(log)] = ErrorMessage(<<"Error copying files: ", "exit">>)

\* C12: an invocation of the command launches the binary at most once; the
\* command line is the quoted binary path followed by every path of
\* selectedPaths, each one double-quoted, in the order of selectedPaths, and
\* every --cargo-toml / --pyproject option comes after all of them.
C12_OneLaunchPathsFirst ==
    /\ Cardinality(Entries("exec")) <= 1
    /\ Launched =>
          LET cmd == LaunchedCommand
              n == Len(selectedPaths)
          IN  /\ n >= 1 /\ Len(cmd) >= n + 1
              /\ cmd[1] = Quoted(BinPath)
              /\ \A i \in 1..n : cmd[i + 1] = Quoted(selectedPaths[i])
              /\ \A k \in 1..Len(cmd) : cmd[k].kind = "option" => k > n + 1

\* Two different paths were selected and the launch carries an override.
C12_Witness ==
    /\ Launched
    /\ Len(selectedPaths) = 2 /\ selectedPaths[1] /= selectedPaths[2]
    /\ \E k \in 1..Len(LaunchedCommand) : LaunchedCommand[k].kind = "option"

\* The progress notification has been opened or the binary launched.
LaunchStarted == Entries("withProgress") \cup Entries("exec") /= {}

\* An error message with this text has been shown.
Shown(text) == \E k \in 1..Len(log) : log[k] = ErrorMessage(text)

BinaryNotFound == <<"Code Copier binary not found. Please check the installation.">>

\* detectProjectFiles has been called.
DetectCalled == det.pc /= "for"

\* C13: the progress notification is opened and the binary launched only
\* when a path has been selected, the binary exists in the bin directory and
\* detectProjectFiles has returned for the selected paths; the checks come in
\* this order (no binary check without a path, no detection without the
\* binary); with no workspace folder open, the folder prompt dismissed, the
\* binary missing or detection throwing, nothing is launched.
C13_LaunchOnlyAfterChecks ==
    /\ LaunchStarted =>
          /\ Len(selectedPaths) >= 1
          /\ BinExists
          /\ det.pc = "returned" /\ paths = selectedPaths
    /\ Shown(BinaryNotFound) => Len(selectedPaths) >= 1 /\ ~DetectCalled
    /\ DetectCalled => Len(selectedPaths) >= 1 /\ BinExists
    /\ ( \/ Shown(<<"No workspace folder is open.">>)
         \/ Answered(Undefined)
         \/ Shown(BinaryNotFound)
         \/ ~BinExists
         \/ det.pc = "threw" ) => ~LaunchStarted

\* A launch after a folder was picked at the prompt.
C13_Witness ==
    /\ LaunchStarted /\ Launched
    /\ Prompted /\ ~Answered(Undefined)
    /\ BinExists /\ det.pc = "returned"

(***************************************************************************)
(* Properties of the build scripts, checked under SpecBuild.               *)
(***************************************************************************)
\* A build script has completed successfully.
Built == pc \notin {"unbuilt", "buildFailed"}

\* C14 as stated: on macOS, Linux and Windows, once a build script has
\* completed successfully the bin directory holds the file name the extension
\* looks up on that platform, and the command never reports that the binary
\* was not found.
C14_BuiltNameIsLookedUp ==
    /\ Built => BinExists
    /\ ~Shown(BinaryNotFound)

(***************************************************************************)
(* Termination of detectProjectFiles, checked under SpecDetect.            *)
(***************************************************************************)
\* The call has ended, by returning or by throwing.
Ended == det.pc \in {"returned", "threw"}

\* More than the number of steps one input path can take: one at the head
\* of the for loop and one for each directory from its start up to the
\* root; a path has at most MaxDepth + 1 segments.
Stride == MaxDepth + 4

\* A bound on the steps still to come: the input paths not yet finished
\* count Stride each; within one of them the head of the for loop comes
\* before the walk, and the walk has at most the directories from the
\* current one up to the root to examine.
Remaining ==
    IF Ended THEN 0
    ELSE (Len(paths) + 1 - det.idx) * Stride
            + (IF det.pc = "for" THEN Stride - 1 ELSE Len(det.dir) + 1)

\* The directories examined so far for input path i, in order.
Walk(i) ==
    LET e == SelectSeq(det.examined, LAMBDA x : x[1] = i)
    IN  [k \in 1..Len(e) |-> e[k][2]]

\* What a step may add to the directories examined: nothing, or the current
\* directory of the current input path, which lies between the start
\* directory of that path and the root, was not examined for it before and,
\* unless it is the first one of its walk, is the parent of the directory
\* examined last, which was not the root.
WalkGrows ==
    LET e == det'.examined
        n == Len(e)
    IN  \/ e = det.examined
        \/ /\ e = Append(det.examined, <<det.idx, det.dir>>)
           /\ LET start == StartDir(paths[det.idx])
              IN  /\ Len(det.dir) <= Len(start)
                  /\ det.dir = SubSeq(start, 1, Len(det.dir))
           /\ \A k \in 1..(n - 1) : e[k] /= e[n]
           /\ n > 1 =>
                 IF e[n - 1][1] = det.idx
                 THEN /\ e[n - 1][2] /= <<>>
                      /\ det.dir = Dirname(e[n - 1][2])
                      /\ Len(det.dir) < Len(e[n - 1][2])
                 ELSE e[n - 1][1] < det.idx

\* C15: detectProjectFiles terminates: every step of the function lowers a
\* natural number that is 0 exactly when the call has ended, and a call that
\* has not ended is at the head of one of its two loops, where the next step
\* can be taken.  The directories are examined input path by input path;
\* the walk of an input path examines only directories between its start
\* directory and the root, no directory twice, every next one being the
\* parent of the one before, and nothing after the root, whose parent is
\* the root itself.
C15_Terminates ==
    /\ [][Remaining' < Remaining /\ WalkGrows]_vars
    /\ [](/\ Remaining >= 0
          /\ Remaining = 0 <=> Ended
          /\ ~Ended => det.pc \in {"for", "while"} /\ det.idx <= Len(paths) + 1)

\* Two walks from the deepest directories, both up to the root, and then
\* the return.
C15_Witness ==
    /\ det.pc = "returned"
    /\ Len(paths) = 2
    /\ \A i \in 1..2 :
          /\ Len(StartDir(paths[i])) = MaxDepth
          /\ Len(Walk(i)) = MaxDepth + 1
          /\ Walk(i)[MaxDepth + 1] = <<>>

====
